---- MODULE Spec2Model ----
(***************************************************************************)
(* Expert-Tune: the SQLite store (auth_db.py), the dataset builder and the *)
(* training script (finetune.py) and the Streamlit sessions (app.py).      *)
(*                                                                         *)
(* Georgian string literals of the source are transliterated to ASCII.     *)
(***************************************************************************)
EXTENDS Naturals, Sequences, FiniteSets, TLC

(* ------------------------------ bounds --------------------------------- *)

\* Rows the chat_history table may hold before the model stops appending.
MaxRows == 3

\* Longest conversation handed to the dataset builder in SpecDataset.
MaxLen == 3

\* Spec: chat submissions stop once the table or a transcript holds this many.
MaxChat == 3

\* Spec: runs of the app.py script (one per widget event) over all sessions.
MaxRuns == 8

(* --------------------------- input alphabets --------------------------- *)

Sessions == {"s1", "s2"}

Usernames == {"ana", "bob"}

Passwords == {"pw1", "pw2"}

\* Two of the four options of the domain selectbox.
Domains == {"iuristi", "fsiqologi"}

FirstDomain == "iuristi"

Roles == {"user", "assistant"}

Prompts == {"q1"}

Replies == {"a1"}

Contents == {"q1", "a1"}

Partitions == Usernames \X Domains

\* The fixed apology text substituted for a failed completion call.
APOLOGY == "samwuxarod, AI-tan dakavshireba ver moxerxda."

NoUser == ""

(* ------------------------------ state ---------------------------------- *)

VARIABLES
    db,            \* the SQLite file: [schema, users, chat_history, seq]
    dataset,       \* dataset.jsonl: [exists, lines]
    history_in,    \* SpecDataset: the history argument of the builder
    domain_in,     \* SpecDataset: the domain argument of the builder
    auth,          \* per session: st.session_state.auth, [started, creds]
    login,         \* per session: the authenticated username, or NoUser
    domain,        \* per session: the selectbox value
    register,      \* per session: st.session_state.register
    msgs,          \* per session: the msgs_<user>_<domain> entries of session_state
    pc,            \* per session: where the running script is
    returncode,    \* per session: exit status of the last training subprocess
    ui,            \* per session: the feedback the current script run displayed
    runs,          \* script runs started so far, over all sessions
    appended,      \* history: per partition, the messages save_msg committed
    first_hash,    \* history: per username, the hash of the first add_user call
    last_hash,     \* history: per username, the hash of the latest add_user call
    writers        \* history: per partition, the sessions that wrote to it

fileVars == <<dataset>>

inVars == <<history_in, domain_in>>

sessVars == <<auth, login, domain, register, msgs, pc, returncode, ui>>

\* A widget event starts one more run of the script.
StartRun == runs < MaxRuns /\ runs' = runs + 1

histVars == <<appended, first_hash, last_hash, writers>>

vars == <<db, fileVars, inVars, sessVars, runs, histVars>>

(* ----------------------------- auth_db.py ------------------------------ *)

AllTables == {"users", "chat_history"}

\* The file before init_db ever ran: no table. seq is sqlite_sequence, the
\* last id AUTOINCREMENT handed out.
NoDatabase == [schema |-> {}, users |-> {}, chat_history |-> {}, seq |-> 0]

EmptyDatabase == [NoDatabase EXCEPT !.schema = AllTables]

\* Variant: the table is dropped and created again.
create_table_recreating(sch, name, rows) == {}

\* CREATE TABLE IF NOT EXISTS: an existing table keeps its rows.
create_table_if_not_exists(sch, name, rows) ==
    IF name \in sch THEN rows ELSE {}

\* init_db(): both CREATE TABLE IF NOT EXISTS statements, then commit.
init_db(d) ==
    [schema       |-> d.schema \cup AllTables,
     users        |-> create_table_if_not_exists(d.schema, "users", d.users),
     chat_history |-> create_table_if_not_exists(d.schema, "chat_history",
                                                 d.chat_history),
     seq          |-> IF "chat_history" \in d.schema THEN d.seq ELSE 0]

\* Variant: INSERT OR REPLACE, the later hash wins.
insert_or_replace(rows, username, pwd_hash) ==
    {r \in rows : r.username # username}
        \cup {[username |-> username, password_hash |-> pwd_hash]}

\* INSERT OR IGNORE INTO users: the PRIMARY KEY conflict drops the new row.
insert_or_ignore(rows, username, pwd_hash) ==
    IF \E r \in rows : r.username = username
    THEN rows
    ELSE rows \cup {[username |-> username, password_hash |-> pwd_hash]}

\* add_user(username, pwd_hash): one INSERT OR IGNORE, then commit.
add_user(d, username, pwd_hash) ==
    [d EXCEPT !.users = insert_or_ignore(@, username, pwd_hash)]

\* save_msg(username, domain, role, content): one INSERT, then commit;
\* AUTOINCREMENT hands out the id after the last one.
save_msg(d, username, dom, role, content) ==
    [d EXCEPT !.chat_history =
                  @ \cup {[id |-> d.seq + 1, username |-> username,
                           domain |-> dom, role |-> role, content |-> content]},
              !.seq = @ + 1]

MinId(rows) == CHOOSE i \in {r.id : r \in rows} : \A r \in rows : i <= r.id

RECURSIVE order_by_id(_)
order_by_id(rows) ==
    IF rows = {} THEN <<>>
    ELSE LET first == CHOOSE r \in rows : r.id = MinId(rows)
         IN  <<first>> \o order_by_id(rows \ {first})

project_role_content(rowseq) ==
    [i \in 1..Len(rowseq) |->
        [role |-> rowseq[i].role, content |-> rowseq[i].content]]

\* Variant: the query without the domain condition.
load_history_any_domain(d, username, dom) ==
    project_role_content(
        order_by_id({r \in d.chat_history : r.username = username}))

\* SELECT role, content FROM chat_history WHERE username = ? AND domain = ?
\* ORDER BY id
load_history(d, username, dom) ==
    project_role_content(
        order_by_id({r \in d.chat_history :
                        r.username = username /\ r.domain = dom}))

\* SELECT username, password_hash FROM users
get_users(d) == {<<r.username, r.password_hash>> : r \in d.users}

(* ----------------------------- finetune.py ----------------------------- *)

prompt_template(dom) == "sheqmeni " \o dom \o " pasuxi.\n"

RECURSIVE pairs_from(_, _, _)
pairs_from(history, dom, i) ==
    IF i >= Len(history) THEN <<>>
    ELSE (IF i + 1 < Len(history)
          THEN <<[prompt     |-> prompt_template(dom) \o history[i + 1].content,
                  completion |-> history[i + 2].content]>>
          ELSE <<>>)
         \o pairs_from(history, dom, i + 2)

\* Variant: pairing every other message from offset 1.
build_dataset_offset_one(history, dom) == pairs_from(history, dom, 1)

\* The lines written to output_file: range(0, len(history), 2).
build_dataset_from_history(history, dom) == pairs_from(history, dom, 0)

(* ------------------------------ initial states ------------------------- *)

NoFile == [exists |-> FALSE, lines |-> <<>>]

msgs_key(username, dom) == "msgs_" \o username \o "_" \o dom

Keys == {msgs_key(p[1], p[2]) : p \in Partitions}

NotLoaded == [present |-> FALSE, list |-> <<>>]

\* No CompletedProcess yet: subprocess.run has not returned.
NotRun == [exited |-> FALSE, status |-> 0]

InitSessions ==
    /\ auth = [s \in Sessions |-> [started |-> FALSE, creds |-> {}]]
    /\ login = [s \in Sessions |-> NoUser]
    /\ domain = [s \in Sessions |-> FirstDomain]
    /\ register = [s \in Sessions |-> FALSE]
    /\ msgs = [s \in Sessions |-> [k \in Keys |-> NotLoaded]]
    /\ pc = [s \in Sessions |-> "idle"]
    /\ returncode = [s \in Sessions |-> NotRun]
    /\ ui = [s \in Sessions |-> {}]
    /\ runs = 0

InitHistory ==
    /\ appended = [p \in Partitions |-> <<>>]
    /\ first_hash = [u \in Usernames \cup {""} |-> "none"]
    /\ last_hash = [u \in Usernames \cup {""} |-> "none"]
    /\ writers = [p \in Partitions |-> {}]

InitNoInput ==
    /\ history_in = <<>>
    /\ domain_in = FirstDomain
    /\ dataset = NoFile

\* The history variables follow the committed writes.
LogAppend(username, dom, role, content) ==
    appended' = [appended EXCEPT ![<<username, dom>>] =
                    Append(@, [role |-> role, content |-> content])]

LogAddUser(username, pwd_hash) ==
    /\ first_hash' = IF first_hash[username] = "none"
                     THEN [first_hash EXCEPT ![username] = pwd_hash]
                     ELSE first_hash
    /\ last_hash' = [last_hash EXCEPT ![username] = pwd_hash]

(* ------- SpecStore, SpecUsers: the auth_db API called directly --------- *)

\* hashlib.sha256(pwd.encode()).hexdigest(): one digest per password.
sha256(pwd) == "sha256:" \o pwd

Hashes == {sha256(p) : p \in Passwords}

\* init_db is "invoked at application startup": the tables exist.
InitStore ==
    /\ db = EmptyDatabase
    /\ InitNoInput
    /\ InitSessions
    /\ InitHistory

InitDbCall ==
    /\ db' = init_db(db)
    /\ UNCHANGED <<runs, fileVars, inVars, sessVars, histVars>>

\* The store takes any string as a username, the empty one too.
AddUserCall ==
    \E u \in Usernames \cup {""}, h \in Hashes :
        /\ db' = add_user(db, u, h)
        /\ LogAddUser(u, h)
        /\ UNCHANGED <<runs, fileVars, inVars, sessVars, appended, writers>>

SaveMsgCall ==
    \E u \in Usernames, d \in Domains, r \in Roles, c \in Contents :
        /\ db.seq < MaxRows
        /\ db' = save_msg(db, u, d, r, c)
        /\ LogAppend(u, d, r, c)
        /\ UNCHANGED <<runs, fileVars, inVars, sessVars, first_hash, last_hash,
                       writers>>

NextStore == InitDbCall \/ SaveMsgCall

SpecStore == InitStore /\ [][NextStore]_vars

NextUsers == InitDbCall \/ AddUserCall

SpecUsers == InitStore /\ [][NextUsers]_vars

(* ---------------- SpecDataset: the dataset builder alone --------------- *)

Messages == [role : Roles, content : Contents]

BoundedSeq(S, n) == UNION {[1..k -> S] : k \in 0..n}

InitDataset ==
    /\ db = EmptyDatabase
    /\ history_in \in BoundedSeq(Messages, MaxLen)
    /\ domain_in \in Domains
    /\ dataset = NoFile
    /\ InitSessions
    /\ InitHistory

\* open(output_file, "w") and one line per record.
BuildDatasetCall ==
    /\ dataset' = [exists |-> TRUE,
                   lines  |-> build_dataset_from_history(history_in, domain_in)]
    /\ UNCHANGED <<runs, db, inVars, sessVars, histVars>>

NextDataset == BuildDatasetCall

SpecDataset == InitDataset /\ [][NextDataset]_vars

(* ------------------------------- app.py -------------------------------- *)

\* Variant: the authenticator built with an empty dictionary.
build_credentials_empty(d) == {}

\* build_credentials(): one entry per row of get_users().
build_credentials(d) ==
    {[username |-> r[1], name |-> r[1], email |-> r[1] \o "@example.com",
      password |-> r[2]] : r \in get_users(d)}

\* stauth.Authenticate(credentials=...): the table lives in the object only.
Authenticate(creds) == [started |-> TRUE, creds |-> creds]

\* if "auth" not in st.session_state: build the authenticator.
ensure_auth(a, d) ==
    IF a.started THEN a ELSE Authenticate(build_credentials(d))

\* auth.login("sidebar"): the submitted pair is looked up in the table.
login_ok(a, username, pwd) ==
    \E c \in a.creds : c.username = username /\ c.password = sha256(pwd)

\* Variant: one filled input is taken as enough.
either_filled(new_user, new_pwd) == new_user # "" \/ new_pwd # ""

\* if new_user and new_pwd: both text inputs are non-empty.
both_filled(new_user, new_pwd) == new_user # "" /\ new_pwd # ""

\* Variant: the history is loaded on every run.
load_always(m, d, username, dom) ==
    [m EXCEPT ![msgs_key(username, dom)] =
        [present |-> TRUE, list |-> load_history(d, username, dom)]]

\* if key not in st.session_state: st.session_state[key] = load_history(...)
load_if_missing(m, d, username, dom) ==
    IF m[msgs_key(username, dom)].present
    THEN m
    ELSE [m EXCEPT ![msgs_key(username, dom)] =
             [present |-> TRUE, list |-> load_history(d, username, dom)]]

\* The part of "if auth_status:" every run of the script executes.
main_section(m, d, username, dom) ==
    IF username = NoUser THEN m ELSE load_if_missing(m, d, username, dom)

\* Variant: the turn is appended in two places.
append_turn_twice(m, username, dom, role, content) ==
    [m EXCEPT ![msgs_key(username, dom)].list =
        @ \o <<[role |-> role, content |-> content],
               [role |-> role, content |-> content]>>]

\* st.session_state[key].append({"role": role, "content": content})
append_turn(m, username, dom, role, content) ==
    [m EXCEPT ![msgs_key(username, dom)].list =
        Append(@, [role |-> role, content |-> content])]

\* try: reply = <completion> except Exception: reply = <apology>
ProviderError == "ProviderError"

reply_of(outcome) == IF outcome = ProviderError THEN APOLOGY ELSE outcome

\* Variant: check=False, the exit status is not looked at.
check_ignored(status) == FALSE

\* subprocess.run(..., check=True) raises CalledProcessError on a non-zero exit.
check_raises(status) == status # 0

\* The warning or nothing that the branches on auth_status display.
banner(username) == IF username = NoUser THEN {"please_login"} ELSE {}

Idle(s) == auth[s].started /\ pc[s] = "idle"

\* The first run of the script in a session: no widget event yet.
Open(s) ==
    /\ ~auth[s].started
    /\ StartRun
    /\ db' = init_db(db)
    /\ auth' = [auth EXCEPT ![s] = ensure_auth(@, db')]
    /\ ui' = [ui EXCEPT ![s] = banner(login[s])]
    /\ UNCHANGED <<fileVars, inVars, login, domain, register, msgs, pc,
                   returncode, histVars>>

\* The login form is submitted.
Login(s, username, pwd) ==
    /\ Idle(s)
    /\ StartRun
    /\ login[s] = NoUser
    /\ db' = init_db(db)
    /\ IF login_ok(auth[s], username, pwd)
       THEN /\ login' = [login EXCEPT ![s] = username]
            /\ msgs' = [msgs EXCEPT ![s] =
                           main_section(@, db', username, domain[s])]
            /\ ui' = [ui EXCEPT ![s] = {}]
       ELSE /\ ui' = [ui EXCEPT ![s] = {"auth_failed"}]
            /\ UNCHANGED <<login, msgs>>
    /\ UNCHANGED <<fileVars, inVars, auth, domain, register, pc, returncode,
                   histVars>>

\* The logout button.
Logout(s) ==
    /\ Idle(s)
    /\ StartRun
    /\ login[s] # NoUser
    /\ db' = init_db(db)
    /\ login' = [login EXCEPT ![s] = NoUser]
    /\ ui' = [ui EXCEPT ![s] = banner(NoUser)]
    /\ UNCHANGED <<fileVars, inVars, auth, domain, register, msgs, pc,
                   returncode, histVars>>

\* The sidebar button that shows or hides the registration form.
ToggleRegister(s) ==
    /\ Idle(s)
    /\ StartRun
    /\ db' = init_db(db)
    /\ register' = [register EXCEPT ![s] = ~@]
    /\ msgs' = [msgs EXCEPT ![s] = main_section(@, db', login[s], domain[s])]
    /\ ui' = [ui EXCEPT ![s] = banner(login[s])]
    /\ UNCHANGED <<fileVars, inVars, auth, login, domain, pc, returncode,
                   histVars>>

\* The submit button of the registration form.  Whether the rebuilt
\* authenticator keeps the login is the library's choice: keep is either.
RegisterSubmit(s, new_user, new_pwd, keep) ==
    /\ Idle(s)
    /\ StartRun
    /\ register[s]
    /\ IF both_filled(new_user, new_pwd)
       THEN /\ db' = add_user(init_db(db), new_user, sha256(new_pwd))
            /\ LogAddUser(new_user, sha256(new_pwd))
            /\ auth' = [auth EXCEPT ![s] = Authenticate(build_credentials(db'))]
            /\ register' = [register EXCEPT ![s] = FALSE]
            /\ login' = [login EXCEPT ![s] = IF keep THEN @ ELSE NoUser]
            /\ ui' = [ui EXCEPT ![s] = {"registered"} \cup banner(login[s])]
       ELSE /\ db' = init_db(db)
            /\ ui' = [ui EXCEPT ![s] = {"fill_both"} \cup banner(login[s])]
            /\ UNCHANGED <<first_hash, last_hash, auth, register, login>>
    /\ msgs' = [msgs EXCEPT ![s] = main_section(@, db', login[s], domain[s])]
    /\ UNCHANGED <<fileVars, inVars, domain, pc, returncode, appended, writers>>

\* Another option of the domain selectbox is chosen.
SelectDomain(s, dom) ==
    /\ Idle(s)
    /\ StartRun
    /\ login[s] # NoUser
    /\ dom # domain[s]
    /\ db' = init_db(db)
    /\ domain' = [domain EXCEPT ![s] = dom]
    /\ msgs' = [msgs EXCEPT ![s] = main_section(@, db', login[s], dom)]
    /\ ui' = [ui EXCEPT ![s] = {}]
    /\ UNCHANGED <<fileVars, inVars, auth, login, register, pc, returncode,
                   histVars>>

\* st.chat_input() returns a prompt: the user turn is appended and saved, and
\* the script waits for the completion provider.  fault: save_msg raises.
ChatSubmit(s, prompt, fault) ==
    /\ Idle(s)
    /\ StartRun
    /\ login[s] # NoUser
    /\ db.seq < MaxChat
    /\ Len(msgs[s][msgs_key(login[s], domain[s])].list) < MaxChat
    /\ msgs' = [msgs EXCEPT ![s] =
                   append_turn(main_section(@, init_db(db), login[s], domain[s]),
                               login[s], domain[s], "user", prompt)]
    /\ IF fault
       THEN /\ db' = init_db(db)
            /\ ui' = [ui EXCEPT ![s] = {"exception"}]
            /\ UNCHANGED <<pc, appended, writers>>
       ELSE /\ db' = save_msg(init_db(db), login[s], domain[s], "user", prompt)
            /\ LogAppend(login[s], domain[s], "user", prompt)
            /\ writers' = [writers EXCEPT ![<<login[s], domain[s]>>] =
                              @ \cup {s}]
            /\ pc' = [pc EXCEPT ![s] = "calling"]
            /\ ui' = [ui EXCEPT ![s] = {}]
    /\ UNCHANGED <<fileVars, inVars, auth, login, domain, register, returncode,
                   first_hash, last_hash>>

\* The completion call returns or raises; the assistant turn is appended and
\* saved.  fault: save_msg raises.
ProviderReturn(s, outcome, fault) ==
    /\ pc[s] = "calling"
    /\ msgs' = [msgs EXCEPT ![s] =
                   append_turn(@, login[s], domain[s], "assistant",
                               reply_of(outcome))]
    /\ IF fault
       THEN UNCHANGED <<db, appended, writers>>
       ELSE /\ db' = save_msg(db, login[s], domain[s], "assistant",
                              reply_of(outcome))
            /\ LogAppend(login[s], domain[s], "assistant", reply_of(outcome))
            /\ writers' = [writers EXCEPT ![<<login[s], domain[s]>>] =
                              @ \cup {s}]
    /\ ui' = [ui EXCEPT ![s] =
                 (IF outcome = ProviderError THEN {"openai_error"} ELSE {})
                     \cup (IF fault THEN {"exception"} ELSE {})]
    /\ pc' = [pc EXCEPT ![s] = "idle"]
    /\ UNCHANGED <<runs, fileVars, inVars, auth, login, domain, register, returncode,
                   first_hash, last_hash>>

\* The fine-tune button: with a non-empty transcript the subprocess is
\* launched and the script blocks in subprocess.run.
FineTuneClick(s) ==
    /\ Idle(s)
    /\ StartRun
    /\ login[s] # NoUser
    /\ db' = init_db(db)
    /\ msgs' = [msgs EXCEPT ![s] = main_section(@, db', login[s], domain[s])]
    /\ IF msgs'[s][msgs_key(login[s], domain[s])].list # <<>>
       THEN /\ pc' = [pc EXCEPT ![s] = "training"]
            /\ returncode' = [returncode EXCEPT ![s] = NotRun]
            /\ ui' = [ui EXCEPT ![s] = {"info"}]
       ELSE /\ ui' = [ui EXCEPT ![s] = {}]
            /\ UNCHANGED <<pc, returncode>>
    /\ UNCHANGED <<fileVars, inVars, auth, login, domain, register, histVars>>

\* finetune.py main() in the subprocess, with CURRENT_USER and CURRENT_DOMAIN
\* of the launching session.  trained: the training part runs to the end.
FinetuneMain(s, trained) ==
    /\ pc[s] = "training"
    /\ LET user    == login[s]
           dom     == domain[s]
           history == load_history(db, user, dom)
       IN  IF user = "" \/ dom = "" \/ history = <<>>
           THEN /\ returncode' = [returncode EXCEPT ![s] =
                                     [exited |-> TRUE, status |-> 1]]
                /\ UNCHANGED dataset
           ELSE /\ dataset' = [exists |-> TRUE,
                               lines  |-> build_dataset_from_history(history, dom)]
                /\ returncode' = [returncode EXCEPT ![s] =
                                     [exited |-> TRUE,
                                      status |-> IF trained THEN 0 ELSE 1]]
    /\ pc' = [pc EXCEPT ![s] = "exited"]
    /\ UNCHANGED <<runs, db, inVars, auth, login, domain, register, msgs, ui,
                   histVars>>

\* subprocess.run returns: check=True, then st.success.
FineTuneReturn(s) ==
    /\ pc[s] = "exited"
    /\ ui' = [ui EXCEPT ![s] =
                 IF check_raises(returncode[s].status)
                 THEN {"info", "exception"}
                 ELSE {"info", "ft_success"}]
    /\ returncode' = [returncode EXCEPT ![s] = NotRun]
    /\ pc' = [pc EXCEPT ![s] = "idle"]
    /\ UNCHANGED <<runs, db, fileVars, inVars, auth, login, domain, register, msgs,
                   histVars>>

\* What is typed into the forms of Spec; "" is an input left empty.
FormNames == {"ana", "bob", ""}

FormPasswords == {"pw1", "pw2", ""}

Init ==
    /\ db = NoDatabase
    /\ InitNoInput
    /\ InitSessions
    /\ InitHistory

Next ==
    \E s \in Sessions :
        \/ Open(s)
        \/ \E u \in FormNames \ {""}, p \in Passwords : Login(s, u, p)
        \/ Logout(s)
        \/ ToggleRegister(s)
        \/ \E u \in FormNames, p \in FormPasswords, keep \in BOOLEAN :
               RegisterSubmit(s, u, p, keep)
        \/ \E d \in Domains : SelectDomain(s, d)
        \/ \E q \in Prompts, fault \in BOOLEAN : ChatSubmit(s, q, fault)
        \/ \E o \in Replies \cup {ProviderError}, fault \in BOOLEAN :
               ProviderReturn(s, o, fault)
        \/ FineTuneClick(s)
        \/ \E trained \in BOOLEAN : FinetuneMain(s, trained)
        \/ FineTuneReturn(s)

Spec == Init /\ [][Next]_vars

(* ------------------------------ claims --------------------------------- *)

\* C1: for every (username, domain) partition, load_history returns exactly
\* the messages save_msg appended to that partition, as {role, content}
\* pairs in append order; a partition never appended to yields the empty list.
C1_LoadReturnsAppended ==
    \A p \in Partitions :
        load_history(db, p[1], p[2]) = appended[p]

\* Two partitions of the same user hold different conversations and a third
\* partition was never written.
C1_Witness ==
    /\ Len(appended[<<"ana", "iuristi">>]) = 2
    /\ appended[<<"ana", "iuristi">>][1] # appended[<<"ana", "iuristi">>][2]
    /\ Len(appended[<<"ana", "fsiqologi">>]) = 1
    /\ appended[<<"bob", "iuristi">>] = <<>>
    /\ load_history(db, "bob", "iuristi") = <<>>

\* C2: get_users holds exactly one record per username ever passed to
\* add_user, carrying the hash of the first call for that username.
C2_FirstHashKept ==
    get_users(db) =
        {<<u, first_hash[u]>> :
            u \in {v \in Usernames \cup {""} : first_hash[v] # "none"}}

\* "ana" was added with the hash of pw1, add_user ran again for "ana" with
\* the hash of pw2, and another user is stored as well.
C2_Witness ==
    /\ first_hash["ana"] = sha256("pw1")
    /\ last_hash["ana"] = sha256("pw2")
    /\ <<"ana", sha256("pw1")>> \in get_users(db)
    /\ Cardinality(get_users(db)) = 2

IsPrefix(a, b) == Len(a) <= Len(b) /\ SubSeq(b, 1, Len(a)) = a

Transcript(s, p) == msgs[s][msgs_key(p[1], p[2])]

ApologyTurn == [role |-> "assistant", content |-> APOLOGY]

CredPairs(s) == {<<c.username, c.password>> : c \in auth[s].creds}

RegistersUser(s) ==
    \E u \in FormNames, p \in FormPasswords, keep \in BOOLEAN :
        RegisterSubmit(s, u, p, keep) /\ both_filled(u, p)

\* C5 as claimed: every session's credential table holds exactly the pairs of
\* get_users, whichever session registered last.
C5_EverySessionCurrent ==
    \A s \in Sessions : auth[s].started => CredPairs(s) = get_users(db)

\* C5: a session's credential table is rebuilt from the full User Store when
\* the session starts and after every registration the session itself
\* performs, and then holds exactly the pairs of get_users; a registration by
\* another session leaves it as it was, so between rebuilds it holds pairs of
\* get_users only, possibly not all.
C5_RebuiltByOwnSession ==
    /\ [](\A s \in Sessions : CredPairs(s) \subseteq get_users(db))
    /\ [][\A s \in Sessions :
             /\ (Open(s) \/ RegistersUser(s)) =>
                    CredPairs(s)' = get_users(db')
             /\ \A t \in Sessions \ {s} :
                    RegistersUser(t) => auth'[s] = auth[s]]_vars

\* One session has just registered the second user and holds both pairs; the
\* other session, started earlier, does not.
C5_Witness ==
    \E s \in Sessions, t \in Sessions :
        /\ "registered" \in ui[s]
        /\ Cardinality(auth[s].creds) = 2
        /\ CredPairs(s) = get_users(db)
        /\ auth[t].started
        /\ CredPairs(t) # get_users(db)

\* C6: the trigger blocks while the subprocess runs; success is reported only
\* as subprocess.run returns from an exit with status zero; a non-zero exit
\* raises instead; the subprocess exits non-zero when it finds no stored
\* history.
C6_SuccessOnlyAfterZeroExit ==
    /\ [](\A s \in Sessions :
             /\ pc[s] = "exited" <=> returncode[s].exited
             /\ pc[s] \in {"training", "exited"} => "ft_success" \notin ui[s])
    /\ [][\A s \in Sessions :
             /\ ("ft_success" \in ui'[s] /\ "ft_success" \notin ui[s]) =>
                    /\ pc[s] = "exited"
                    /\ returncode[s].status = 0
                    /\ pc'[s] = "idle"
             /\ FineTuneReturn(s) /\ returncode[s].status # 0 =>
                    /\ "exception" \in ui'[s]
                    /\ "ft_success" \notin ui'[s]
             /\ pc[s] = "training" =>
                    /\ pc'[s] \in {"training", "exited"}
                    /\ <<auth[s], login[s], domain[s], register[s], msgs[s],
                         ui[s]>>' =
                       <<auth[s], login[s], domain[s], register[s], msgs[s],
                         ui[s]>>
             /\ (pc[s] = "training" /\ pc'[s] = "exited"
                 /\ load_history(db, login[s], domain[s]) = <<>>) =>
                    returncode'[s].status # 0]_vars

\* A fine-tune run has ended with status zero and the success message.
C6_Witness ==
    \E s \in Sessions :
        /\ "ft_success" \in ui[s]
        /\ pc[s] = "idle"
        /\ dataset.exists
        /\ Len(dataset.lines) = 1

\* C7: a registration submit with an empty username or password changes
\* neither the User Store nor any credential table, calls add_user not at
\* all, shows the retry prompt and leaves the form open.
C7_EmptyFieldRecovered ==
    [][\A s \in Sessions, u \in FormNames, p \in FormPasswords,
          keep \in BOOLEAN :
          (RegisterSubmit(s, u, p, keep) /\ (u = "" \/ p = "")) =>
              /\ db' = db
              /\ first_hash' = first_hash
              /\ last_hash' = last_hash
              /\ auth' = auth
              /\ register'[s]
              /\ "fill_both" \in ui'[s]
              /\ pc'[s] = "idle"]_vars

\* The retry prompt is shown, the form is open, and the store is populated.
C7_Witness ==
    \E s \in Sessions :
        /\ "fill_both" \in ui[s]
        /\ register[s]
        /\ auth[s].creds # {}
        /\ get_users(db) # {}

Greeting == [role |-> "assistant", content |-> "greeting"]

FirstLoad(s, p) == ~Transcript(s, p).present /\ Transcript(s, p)'.present

OwnChatStep(s) ==
    \/ \E q \in Prompts, fault \in BOOLEAN : ChatSubmit(s, q, fault)
    \/ \E o \in Replies \cup {ProviderError}, fault \in BOOLEAN :
           ProviderReturn(s, o, fault)

\* C8 as claimed: the first load of a partition without stored history seeds
\* the transcript with a single greeting message.
C8_GreetingSeeded ==
    [][\A s \in Sessions, p \in Partitions :
          FirstLoad(s, p) =>
              Transcript(s, p)'.list =
                  IF load_history(db', p[1], p[2]) # <<>>
                  THEN load_history(db', p[1], p[2])
                  ELSE <<Greeting>>]_vars

\* C8: the first load of a (username, domain) pair in a session sets the
\* transcript to the stored history of that partition, the empty list when
\* it has none; afterwards the transcript is never reloaded: it changes only
\* by the session's own chat turns, one appended at a time.
C8_LoadedOnceFromStore ==
    [][\A s \in Sessions, p \in Partitions :
          /\ FirstLoad(s, p) =>
                 Transcript(s, p)'.list = load_history(db', p[1], p[2])
          /\ Transcript(s, p).present =>
                 /\ Transcript(s, p)'.present
                 /\ \/ Transcript(s, p)' = Transcript(s, p)
                    \/ /\ OwnChatStep(s)
                       /\ p = <<login[s], domain[s]>>
                       /\ Len(Transcript(s, p)'.list) =
                              Len(Transcript(s, p).list) + 1
                       /\ IsPrefix(Transcript(s, p).list,
                                   Transcript(s, p)'.list)]_vars

\* A session that never wrote to a partition loaded its stored history, and
\* the partition has grown since: the transcript is the shorter, older list.
C8_Witness ==
    \E s \in Sessions, p \in Partitions :
        /\ Transcript(s, p).present
        /\ s \notin writers[p]
        /\ Transcript(s, p).list # <<>>
        /\ IsPrefix(Transcript(s, p).list, load_history(db, p[1], p[2]))
        /\ Len(Transcript(s, p).list) < Len(load_history(db, p[1], p[2]))

\* C9: in every step of the program (each script run calls init_db first;
\* registration, chat turns to any partition, the training subprocess) the
\* stored history of every partition before the step is a prefix of its
\* history after the step.
C9_AppendOnly ==
    [][\A p \in Partitions :
          IsPrefix(load_history(db, p[1], p[2]),
                   load_history(db', p[1], p[2]))]_vars

\* Two partitions hold messages, written between script runs that each
\* called init_db on the populated store.
C9_Witness ==
    /\ \E p \in Partitions, q \in Partitions :
          /\ p # q
          /\ load_history(db, p[1], p[2]) # <<>>
          /\ load_history(db, q[1], q[2]) # <<>>
    /\ get_users(db) # {}

\* C10 as claimed: for a session that is the only writer of a partition, the
\* transcript equals load_history after every action, completed or aborted.
C10_TranscriptEqualsStore ==
    \A s \in Sessions, p \in Partitions :
        (Transcript(s, p).present /\ pc[s] = "idle" /\ writers[p] \subseteq {s})
            => Transcript(s, p).list = load_history(db, p[1], p[2])

Alternates(h) ==
    \A i \in 1..Len(h) :
        h[i].role = IF i % 2 = 1 THEN "user" ELSE "assistant"

\* The roles of the two messages behind every record the builder writes.
RecordRoles(h) ==
    {<<h[2 * k - 1].role, h[2 * k].role>> :
        k \in 1..Len(build_dataset_from_history(h, FirstDomain))}

\* C11 as claimed: in a partition that one session alone has written, the
\* stored conversation alternates user, assistant, user, ... from a user
\* message on, so every training record built from it pairs a user message
\* with an assistant message.
C11_StoredAlternation ==
    \A p \in Partitions :
        Cardinality(writers[p]) <= 1 =>
            /\ Alternates(load_history(db, p[1], p[2]))
            /\ RecordRoles(load_history(db, p[1], p[2]))
                   \subseteq {<<"user", "assistant">>}

====
